---- MODULE Spec2Model ----
(***************************************************************************)
(* Model of scripts/add_broadcast_extension_target.py (mieweb/pulse).      *)
(*                                                                         *)
(* The script is a one-shot command line helper: main() looks for the      *)
(* Xcode project descriptor, add_broadcast_extension_target() asks the     *)
(* operator for confirmation, reads the descriptor, draws 14 identifiers,  *)
(* tests the raw text for the target name and prints manual instructions.  *)
(* write_pbxproj() is defined but nothing in the script calls it; it is    *)
(* modelled on its own under SpecWrite.                                    *)
(*                                                                         *)
(* Text is modelled as a sequence of tokens.  Names are spelled character  *)
(* by character, so that the substring test of line 62 is computed as      *)
(* Python computes it; keys, node kinds and the brackets of a record are   *)
(* atomic tokens (none of them can take part in a match of the name).      *)
(* The 14 identifier locals of lines 46-59 are never read by the code; the *)
(* model keeps the set of values returned (issued) and the number of       *)
(* calls, not which local holds which value.                               *)
(***************************************************************************)
EXTENDS Integers, Sequences, FiniteSets, TLC

VARIABLES
    pc,            \* position of the running process
    fileExists,    \* project_path.exists()
    fileReadable,  \* open(project_path, 'r') / f.read() succeed
    disk,          \* text of project.pbxproj on disk
    disk0,         \* text of project.pbxproj when the current call started
    response,      \* value returned by input()
    content,       \* local `content` (text read / text handed to write_pbxproj)
    issued,        \* the identifiers generate_uuid() returned to the current invocation
    calls,         \* number of generate_uuid() calls of the current invocation
    reads,         \* number of read_pbxproj() calls of the current invocation
    writes,        \* number of write_pbxproj() calls of the current invocation
    ret,           \* return value of add_broadcast_extension_target
    outcome,       \* how the add operation of the current invocation ended
    exit,          \* process exit status
    prev,          \* how the add operation of the previous invocation ended
    stdout         \* messages printed by the current invocation

vars == <<pc, fileExists, fileReadable, disk, disk0, response, content,
          issued, calls, reads, writes, ret, outcome, exit, prev, stdout>>

----------------------------------------------------------------------------
(* Bounds *)

MaxNodes == 2
MaxId == 2

(* Number of generate_uuid() calls of one add operation, lines 46-59. *)
NumUuids == 14

----------------------------------------------------------------------------
(* The descriptor: a graph of typed nodes, written out as text *)

TargetName ==
    <<"B","r","o","a","d","c","a","s","t","E","x","t","e","n","s","i","o","n">>

LongerName == TargetName \o <<"T","e","s","t","s">>

LowerName ==
    <<"b","r","o","a","d","c","a","s","t","e","x","t","e","n","s","i","o","n">>

AppName == <<"p","u","l","s","e">>

Names == {TargetName, LongerName, LowerName, AppName}

Kinds == {"Target", "FileReference"}

IdTokens == <<"0A1F", "0B2E", "0C3D", "0D4C", "0E5B", "0F6A", "1A79", "1B88">>

RECURSIVE KeysOfKind(_, _, _)
KeysOfKind(shape, kind, i) ==
    IF i > Len(shape) THEN <<>>
    ELSE (IF shape[i][1] = kind THEN <<IdTokens[i]>> ELSE <<>>)
         \o KeysOfKind(shape, kind, i + 1)

(* A well-formed graph: node i has key IdTokens[i]; a Target refers to   *)
(* every FileReference of the graph, other nodes are leaves.             *)
MkGraph(shape) ==
    [i \in 1..Len(shape) |->
        [key  |-> IdTokens[i],
         isa  |-> shape[i][1],
         name |-> shape[i][2],
         refs |-> IF shape[i][1] = "Target"
                  THEN KeysOfKind(shape, "FileReference", 1)
                  ELSE <<>>]]

Graphs ==
    UNION {{MkGraph(shape) : shape \in [1..n -> Kinds \X Names]} : n \in 0..MaxNodes}

SerializeNode(n) == <<n.key, n.isa>> \o n.name \o <<"(">> \o n.refs \o <<")">>

RECURSIVE Serialize(_)
Serialize(g) ==
    IF g = <<>> THEN <<>>
    ELSE SerializeNode(Head(g)) \o Serialize(Tail(g))

RECURSIVE IndexOf(_, _, _)
IndexOf(tok, text, i) ==
    IF i > Len(text) THEN 0
    ELSE IF text[i] = tok THEN i
    ELSE IndexOf(tok, text, i + 1)

RECURSIVE Parse(_)
Parse(text) ==
    LET close == IndexOf(")", text, 1)
        open  == IndexOf("(", text, 1)
    IN  IF close = 0 \/ open < 3 \/ open > close THEN <<>>
        ELSE <<[key  |-> text[1],
                isa  |-> text[2],
                name |-> SubSeq(text, 3, open - 1),
                refs |-> SubSeq(text, open + 1, close - 1)]>>
             \o Parse(SubSeq(text, close + 1, Len(text)))

Keys(g) == {g[i].key : i \in 1..Len(g)}

TargetsNamed(g, name) ==
    {i \in 1..Len(g) : g[i].isa = "Target" /\ g[i].name = name}

NodesOfKind(g, kind) == {i \in 1..Len(g) : g[i].isa = kind}

Resolves(g, i) == \A j \in 1..Len(g[i].refs) : g[i].refs[j] \in Keys(g)

----------------------------------------------------------------------------
(* Pure functions of the script *)

(* str.lower() on the letters an answer is made of *)
LowerChar(c) ==
    CASE c = "Y" -> "y"
      [] c = "E" -> "e"
      [] c = "S" -> "s"
      [] c = "N" -> "n"
      [] c = "O" -> "o"
      [] OTHER   -> c

Lower(s) == [i \in 1..Len(s) |-> LowerChar(s[i])]

(* line 39: response.lower() != 'yes' *)
DeclinedLoose(r) == Lower(r) = <<"n","o">>
Declined(r) == Lower(r) # <<"y","e","s">>

(* line 62: 'BroadcastExtension' in content *)
Contains(needle, hay) ==
    \E i \in 0..(Len(hay) - Len(needle)) :
        SubSeq(hay, i + 1, i + Len(needle)) = needle

(* line 20: uuid.uuid4().hex[:24].upper() -- any token of the format *)
GenerateUuid == {IdTokens[i] : i \in 1..MaxId}

Responses ==
    {<<"y","e","s">>, <<"Y","E","S">>, <<"n","o">>, <<"N","O">>,
     <<"y">>, <<"y","e","s"," ">>, <<>>}

----------------------------------------------------------------------------
(* The script *)

Init ==
    /\ pc = "main"
    /\ fileExists \in BOOLEAN
    /\ fileReadable \in BOOLEAN
    /\ (~fileExists => ~fileReadable)
    /\ disk \in {Serialize(g) : g \in Graphs}
    /\ (~fileExists => disk = <<>>)
    /\ disk0 = disk
    /\ response = <<>>
    /\ content = <<>>
    /\ issued = {}
    /\ calls = 0
    /\ reads = 0
    /\ writes = 0
    /\ ret = "None"
    /\ outcome = "none"
    /\ exit = -1
    /\ prev = "none"
    /\ stdout = <<>>

(* main, lines 95-97: the project file is missing *)
Main_NotFound ==
    /\ pc = "main"
    /\ ~fileExists
    /\ stdout' = Append(stdout, "Project file not found")
    /\ outcome' = "IOFailure"
    /\ exit' = 1
    /\ pc' = "exited"
    /\ UNCHANGED <<fileExists, fileReadable, disk, disk0, response,
                   content, issued, calls, reads, writes, ret, prev>>

(* main, lines 99-103, and lines 35-37: banner and warning *)
Main_Call ==
    /\ pc = "main"
    /\ fileExists
    /\ stdout' = stdout \o <<"Xcode Project Setup Helper", "WARNING">>
    /\ pc' = "prompt"
    /\ UNCHANGED <<fileExists, fileReadable, disk, disk0, response,
                   content, issued, calls, reads, writes, ret, outcome, exit,
                   prev>>

(* line 38: input() returns a line *)
Input ==
    /\ pc = "prompt"
    /\ \E r \in Responses : response' = r
    /\ pc' = "confirm"
    /\ UNCHANGED <<fileExists, fileReadable, disk, disk0, content,
                   issued, calls, reads, writes, ret, outcome, exit, prev,
                   stdout>>

(* line 38: input() raises EOFError; nothing catches it, the interpreter *)
(* prints the traceback and exits with status 1                          *)
Input_EOF ==
    /\ pc = "prompt"
    /\ stdout' = Append(stdout, "Traceback")
    /\ outcome' = "IOFailure"
    /\ exit' = 1
    /\ pc' = "exited"
    /\ UNCHANGED <<fileExists, fileReadable, disk, disk0, response,
                   content, issued, calls, reads, writes, ret, prev>>

(* lines 39-41 *)
Abort ==
    /\ pc = "confirm"
    /\ Declined(response)
    /\ stdout' = Append(stdout, "Aborting.")
    /\ ret' = "False"
    /\ outcome' = "Aborted"
    /\ pc' = "returned"
    /\ UNCHANGED <<fileExists, fileReadable, disk, disk0, response,
                   content, issued, calls, reads, writes, exit, prev>>

(* line 43, read_pbxproj lines 22-25 *)
Read ==
    /\ pc = "confirm"
    /\ ~Declined(response)
    /\ fileReadable
    /\ content' = disk
    /\ reads' = reads + 1
    /\ pc' = "generate"
    /\ UNCHANGED <<fileExists, fileReadable, disk, disk0, response,
                   issued, calls, writes, ret, outcome, exit, prev, stdout>>

(* line 43, read_pbxproj lines 22-25: open() or read() raises; nothing *)
(* catches it, the interpreter exits with status 1                     *)
Read_Fail ==
    /\ pc = "confirm"
    /\ ~Declined(response)
    /\ ~fileReadable
    /\ reads' = reads + 1
    /\ stdout' = Append(stdout, "Traceback")
    /\ outcome' = "IOFailure"
    /\ exit' = 1
    /\ pc' = "exited"
    /\ UNCHANGED <<fileExists, fileReadable, disk, disk0, response,
                   content, issued, calls, writes, ret, prev>>

(* lines 46-59: one call of generate_uuid (lines 18-20) *)
Generate ==
    /\ pc = "generate"
    /\ calls < NumUuids
    /\ \E u \in GenerateUuid : issued' = issued \cup {u}
    /\ calls' = calls + 1
    /\ pc' = IF calls + 1 = NumUuids THEN "check" ELSE "generate"
    /\ UNCHANGED <<fileExists, fileReadable, disk, disk0, response,
                   content, reads, writes, ret, outcome, exit, prev, stdout>>

(* lines 61-64 *)
AlreadyExists ==
    /\ pc = "check"
    /\ Contains(TargetName, content)
    /\ stdout' = Append(stdout, "target already exists")
    /\ ret' = "False"
    /\ outcome' = "AlreadyExists"
    /\ pc' = "returned"
    /\ UNCHANGED <<fileExists, fileReadable, disk, disk0, response,
                   content, issued, calls, reads, writes, exit, prev>>

(* lines 66-88: print the manual instructions and report success *)
PrepareWriting ==
    /\ pc = "check"
    /\ ~Contains(TargetName, content)
    /\ stdout' = stdout \o <<"Preparing to add", "manual instructions">>
    /\ disk' = content \o SerializeNode([key  |-> IdTokens[Len(IdTokens)],
                                         isa  |-> "Target",
                                         name |-> TargetName,
                                         refs |-> <<IdTokens[Len(IdTokens) - 1]>>])
    /\ writes' = writes + 1
    /\ ret' = "True"
    /\ outcome' = "Created"
    /\ pc' = "returned"
    /\ UNCHANGED <<fileExists, fileReadable, disk0, response,
                   content, issued, calls, reads, exit, prev>>

Prepare ==
    /\ pc = "check"
    /\ ~Contains(TargetName, content)
    /\ stdout' = stdout \o <<"Preparing to add", "manual instructions">>
    /\ ret' = "True"
    /\ outcome' = "Created"
    /\ pc' = "returned"
    /\ UNCHANGED <<fileExists, fileReadable, disk, disk0, response,
                   content, issued, calls, reads, writes, exit, prev>>

(* main, lines 103-105 and 108: the return value is dropped, status 0 *)
Main_Return ==
    /\ pc = "returned"
    /\ exit' = 0
    /\ pc' = "exited"
    /\ UNCHANGED <<fileExists, fileReadable, disk, disk0, response,
                   content, issued, calls, reads, writes, ret, outcome, prev,
                   stdout>>

(* lines 107-108: the operator runs the script again *)
Rerun ==
    /\ pc = "exited"
    /\ prev' = outcome
    /\ pc' = "main"
    /\ disk0' = disk
    /\ response' = <<>>
    /\ content' = <<>>
    /\ issued' = {}
    /\ calls' = 0
    /\ reads' = 0
    /\ writes' = 0
    /\ ret' = "None"
    /\ outcome' = "none"
    /\ exit' = -1
    /\ stdout' = <<>>
    /\ UNCHANGED <<fileExists, fileReadable, disk>>

Next ==
    \/ Main_NotFound
    \/ Main_Call
    \/ Input
    \/ Input_EOF
    \/ Abort
    \/ Read
    \/ Read_Fail
    \/ Generate
    \/ AlreadyExists
    \/ Prepare
    \/ Main_Return
    \/ Rerun

Spec == Init /\ [][Next]_vars

----------------------------------------------------------------------------
(* write_pbxproj on its own: a caller hands it a text, the process may be *)
(* interrupted at any point of the call                                    *)

InitWrite ==
    /\ pc = "w_call"
    /\ fileExists = TRUE
    /\ fileReadable = TRUE
    /\ disk \in {Serialize(g) : g \in Graphs}
    /\ disk0 = disk
    /\ response = <<"y","e","s">>
    /\ content \in {Serialize(g) : g \in {h \in Graphs : Len(h) = 1}}
    /\ issued = {}
    /\ calls = 0
    /\ reads = 0
    /\ writes = 0
    /\ ret = "None"
    /\ outcome = "none"
    /\ exit = -1
    /\ prev = "none"
    /\ stdout = <<>>

(* line 29: open(project_path, 'w') truncates the file *)
Write_Open ==
    /\ pc = "w_call"
    /\ disk' = <<>>
    /\ writes' = writes + 1
    /\ pc' = "w_opened"
    /\ UNCHANGED <<fileExists, fileReadable, disk0, response, content,
                   issued, calls, reads, ret, outcome, exit, prev, stdout>>

(* line 30: f.write(content); the text reaches the file piece by piece *)
Write_Flush ==
    /\ pc = "w_opened"
    /\ Len(disk) < Len(content)
    /\ disk' = Append(disk, content[Len(disk) + 1])
    /\ UNCHANGED <<pc, fileExists, fileReadable, disk0, response, content,
                   issued, calls, reads, writes, ret, outcome, exit, prev,
                   stdout>>

(* lines 29-30: leaving the with block closes the file *)
Write_Close ==
    /\ pc = "w_opened"
    /\ Len(disk) = Len(content)
    /\ pc' = "w_closed"
    /\ UNCHANGED <<fileExists, fileReadable, disk, disk0, response,
                   content, issued, calls, reads, writes, ret, outcome, exit,
                   prev, stdout>>

(* the process is killed during the call *)
Write_Interrupted ==
    /\ pc \in {"w_call", "w_opened"}
    /\ pc' = "w_killed"
    /\ exit' = 1
    /\ UNCHANGED <<fileExists, fileReadable, disk, disk0, response,
                   content, issued, calls, reads, writes, ret, outcome,
                   prev, stdout>>

NextWrite ==
    \/ Write_Open
    \/ Write_Flush
    \/ Write_Close
    \/ Write_Interrupted

SpecWrite == InitWrite /\ [][NextWrite]_vars

----------------------------------------------------------------------------
(* Properties *)

Finished == pc \in {"returned", "exited"}

YesAnswers ==
    {<<a, b, c>> : a \in {"y","Y"}, b \in {"e","E"}, c \in {"s","S"}}

(* Serialize and Parse are inverse on the descriptors of the model *)
ParseRoundTrip == \A g \in Graphs : Parse(Serialize(g)) = g

(* C1: when an add that reported Created is followed by another add of    *)
(* the same target, the second one reports AlreadyExists and leaves the   *)
(* descriptor as the first one left it.                                    *)
C1_Idempotent ==
    (Finished /\ prev = "Created" /\ outcome \in {"Created", "AlreadyExists"})
        => (outcome = "AlreadyExists" /\ disk = disk0)

(* C2: after an add that reports Created the descriptor on disk holds     *)
(* exactly one Target named BroadcastExtension, a ProductReference, a     *)
(* BuildConfigurationList with two BuildConfiguration children, three     *)
(* BuildPhase nodes and the two FileReference nodes.                       *)
C2_CreatedPostcondition ==
    (Finished /\ outcome = "Created") =>
        LET g == Parse(disk)
        IN  /\ Cardinality(TargetsNamed(g, TargetName)) = 1
            /\ Cardinality(NodesOfKind(g, "ProductReference")) >= 1
            /\ \E l \in NodesOfKind(g, "BuildConfigurationList") :
                   Len(g[l].refs) = 2
            /\ Cardinality(NodesOfKind(g, "BuildConfiguration")) >= 2
            /\ Cardinality(NodesOfKind(g, "BuildPhase")) >= 3
            /\ Cardinality(NodesOfKind(g, "FileReference")) >= 2

(* C3: the add reports AlreadyExists exactly when some Target node of the *)
(* descriptor it read is named BroadcastExtension.                         *)
C3_ExactTargetMatch ==
    (Finished /\ outcome \in {"Created", "AlreadyExists"}) =>
        (outcome = "AlreadyExists" <=> TargetsNamed(Parse(content), TargetName) # {})

(* C4: no identifier is returned twice by the generator, and none equals  *)
(* a key of the descriptor.                                                *)
C4_UniqueIdentifiers ==
    /\ Cardinality(issued) = calls
    /\ issued \cap Keys(Parse(disk)) = {}

C6_AtomicWrite == disk \in {disk0, content}

(* C7: the exit status is 0 exactly when the add operation ended in       *)
(* Created or AlreadyExists.                                               *)
C7_ExitReflectsOutcome ==
    pc = "exited" => (exit = 0 <=> outcome \in {"Created", "AlreadyExists"})

(* C8: the descriptor is read or written only after an answer that is     *)
(* 'yes' in some casing; after any other answer the add returns failure   *)
(* without having read or written the descriptor.                          *)
C8_ConfirmationFirst ==
    /\ (reads > 0 \/ writes > 0 \/ disk # disk0) => response \in YesAnswers
    /\ (Finished /\ outcome # "IOFailure" /\ response \notin YesAnswers)
           => (outcome = "Aborted" /\ ret = "False" /\ reads = 0 /\ writes = 0
               /\ disk = disk0)

C8_Witness ==
    /\ pc = "exited"
    /\ response = <<"N","O">>
    /\ outcome = "Aborted"
    /\ reads = 0

(* C9: an add that ends in AlreadyExists has not called the generator.    *)
C9_GuardBeforeAllocation ==
    outcome = "AlreadyExists" => calls = 0

====
